---- MODULE Spec2Model ----
(***************************************************************************)
(* Model of the construction-data pipeline: the App component (App.tsx)    *)
(* and PipelineService (services/pipelineService).                         *)
(*                                                                         *)
(* JavaScript values are tagged records: Undef, Str(<<chars>>), Num(n).    *)
(* A string is a sequence of one-character strings, so that trim(),        *)
(* String() and the lexical comparison of dates are computed, not assumed. *)
(*                                                                         *)
(* A project record is a function from field names to values.  The model   *)
(* keeps the fields the pipeline's decisions depend on:                    *)
(*    "No."            "No."                                               *)
(*    "name"           공사명            "agency"      발주(수요처)        *)
(*    "contractor"     시공사            "address"     주소                *)
(*    "completion"     준공(승인)일      "source"      출처                *)
(*    "bFloors"        지하층수          "gFloors"     지상층수            *)
(*    "amount"         계약금액          "_originalConstr"                 *)
(* The other columns are copied or set to "" and never read again.         *)
(***************************************************************************)
EXTENDS Integers, Sequences, FiniteSets, TLC

(***************************************************************************)
(* Bounds of the model.                                                    *)
(***************************************************************************)
MaxWhobuildsFiles == 2

MaxMaster == 2

MaxNew == 2

MaxResult == 4

MaxChunk == 3

MaxDayShift == 2

(***************************************************************************)
(* JavaScript values.                                                      *)
(***************************************************************************)
Undef == [k |-> "undefined"]

Str(s) == [k |-> "string", s |-> s]

Num(n) == [k |-> "number", n |-> n]

Null == [k |-> "null"]

EmptyStr == Str(<< >>)

\* v is truthy: the left operand of (v || d) is kept
Truthy(v) ==
  CASE v.k = "string" -> v.s # << >>
    [] v.k = "number" -> v.n # 0
    [] OTHER -> FALSE

\* v || d
OrElse(v, d) == IF Truthy(v) THEN v ELSE d

DigitChar(d) == << "0", "1", "2", "3", "4", "5", "6", "7", "8", "9" >>[d + 1]

RECURSIVE NatToStr(_)
NatToStr(n) == IF n < 10 THEN << DigitChar(n) >>
               ELSE NatToStr(n \div 10) \o << DigitChar(n % 10) >>

\* String(v), as a character sequence
JSString(v) ==
  CASE v.k = "string" -> v.s
    [] v.k = "number" -> NatToStr(v.n)
    [] v.k = "null" -> << "n", "u", "l", "l" >>
    [] OTHER -> << "u", "n", "d", "e", "f", "i", "n", "e", "d" >>

IsSpace(c) == c = " "

RECURSIVE TrimLeft(_)
TrimLeft(s) == IF s # << >> /\ IsSpace(Head(s)) THEN TrimLeft(Tail(s)) ELSE s

RECURSIVE TrimRight(_)
TrimRight(s) == IF s # << >> /\ IsSpace(s[Len(s)])
                THEN TrimRight(SubSeq(s, 1, Len(s) - 1)) ELSE s

\* String.prototype.trim
Trim(s) == TrimRight(TrimLeft(s))

\* UTF-16 code unit of the characters that occur in formatted dates
CharCode(c) ==
  CASE c = "-" -> 45
    [] c = "0" -> 48 [] c = "1" -> 49 [] c = "2" -> 50 [] c = "3" -> 51
    [] c = "4" -> 52 [] c = "5" -> 53 [] c = "6" -> 54 [] c = "7" -> 55
    [] c = "8" -> 56 [] c = "9" -> 57

\* a >= b on two strings: comparison by code units, a proper prefix is smaller
RECURSIVE StrGE(_, _)
StrGE(a, b) ==
  IF b = << >> THEN TRUE
  ELSE IF a = << >> THEN FALSE
  ELSE IF Head(a) = Head(b) THEN StrGE(Tail(a), Tail(b))
  ELSE CharCode(Head(a)) > CharCode(Head(b))

(***************************************************************************)
(* Dates.  A Date is a day number (days since 1970-01-01, local time).     *)
(***************************************************************************)
\* the civil date of a day number, as <<year, month, day>>
CivilFromDays(z0) ==
  LET z   == z0 + 719468
      era == z \div 146097
      doe == z - era * 146097
      yoe == (doe - doe \div 1460 + doe \div 36524 - doe \div 146096) \div 365
      doy == doe - (365 * yoe + yoe \div 4 - yoe \div 100)
      mp  == (5 * doy + 2) \div 153
      d   == doy - (153 * mp + 2) \div 5 + 1
      m   == IF mp < 10 THEN mp + 3 ELSE mp - 9
      y   == yoe + era * 400 + (IF m <= 2 THEN 1 ELSE 0)
  IN << y, m, d >>

\* n written with at least w digits
RECURSIVE Pad(_, _)
Pad(s, w) == IF Len(s) >= w THEN s ELSE Pad(<< "0" >> \o s, w)

\* format(date, 'yyyy-MM-dd')
FormatISO(day) ==
  LET c == CivilFromDays(day)
  IN Pad(NatToStr(c[1]), 4) \o << "-" >> \o Pad(NatToStr(c[2]), 2)
       \o << "-" >> \o Pad(NatToStr(c[3]), 2)

\* format(date, 'yyyyMMdd')
FormatTag(day) ==
  LET c == CivilFromDays(day)
  IN Pad(NatToStr(c[1]), 4) \o Pad(NatToStr(c[2]), 2) \o Pad(NatToStr(c[3]), 2)

\* addDays(date, n)
addDays(day, n) == day + n


\* the day number of a civil date
DaysFromCivil(y0, m, d) ==
  LET y   == IF m <= 2 THEN y0 - 1 ELSE y0
      era == y \div 400
      yoe == y - era * 400
      doy == (153 * (IF m > 2 THEN m - 3 ELSE m + 9) + 2) \div 5 + d - 1
      doe == yoe * 365 + yoe \div 4 - yoe \div 100 + doy
  IN era * 146097 + doe - 719468

IsDigit(c) == c \in { "0", "1", "2", "3", "4", "5", "6", "7", "8", "9" }

DigitVal(c) == CharCode(c) - 48

\* the number of leading digits of s, at most max (the regex ^\d{1,max})
RECURSIVE TakeDigits(_, _)
TakeDigits(s, max) ==
  IF max = 0 \/ s = << >> \/ ~IsDigit(Head(s)) THEN 0
  ELSE 1 + TakeDigits(Tail(s), max - 1)

\* parseInt of a sequence of digits
RECURSIVE DigitsToNat(_)
DigitsToNat(s) ==
  IF s = << >> THEN 0
  ELSE 10 * DigitsToNat(SubSeq(s, 1, Len(s) - 1)) + DigitVal(s[Len(s)])

IsLeap(y) == (y % 4 = 0 /\ y % 100 # 0) \/ y % 400 = 0

DaysInMonth(y, m) ==
  IF m = 2 THEN (IF IsLeap(y) THEN 29 ELSE 28)
  ELSE IF m \in { 4, 6, 9, 11 } THEN 30 ELSE 31

NoDate == [ok |-> FALSE]

\* parse(str, fmt, new Date()) followed by isValid: fmt is a sequence of
\* tokens, "Y" (yyyy), "M" (MM), "D" (dd) or a literal character
RECURSIVE ParseTokens(_, _, _)
ParseTokens(str, fmt, acc) ==
  IF fmt = << >> THEN
    IF str # << >> THEN NoDate
    ELSE IF acc.m \notin 1..12 THEN NoDate
    ELSE IF acc.d \notin 1..DaysInMonth(acc.y, acc.m) THEN NoDate
    ELSE [ok |-> TRUE, day |-> DaysFromCivil(acc.y, acc.m, acc.d)]
  ELSE IF Head(fmt) \in { "Y", "M", "D" } THEN
    LET n == TakeDigits(str, IF Head(fmt) = "Y" THEN 4 ELSE 2)
        v == DigitsToNat(SubSeq(str, 1, n))
    IN IF n = 0 THEN NoDate
       ELSE ParseTokens(SubSeq(str, n + 1, Len(str)), Tail(fmt),
              CASE Head(fmt) = "Y" -> [acc EXCEPT !.y = v]
                [] Head(fmt) = "M" -> [acc EXCEPT !.m = v]
                [] OTHER -> [acc EXCEPT !.d = v])
  ELSE IF str # << >> /\ Head(str) = Head(fmt)
       THEN ParseTokens(Tail(str), Tail(fmt), acc)
       ELSE NoDate

\* the formats parseDate tries, in order
formats == << << "Y", ".", "M", ".", "D" >>,
              << "Y", "M", "D" >>,
              << "Y", "-", "M", "-", "D" >> >>

RECURSIVE TryFormats(_, _)
TryFormats(str, fs) ==
  IF fs = << >> THEN Null
  ELSE LET r == ParseTokens(str, Head(fs), [y |-> 0, m |-> 0, d |-> 0])
       IN IF r.ok THEN Str(FormatISO(r.day)) ELSE TryFormats(str, Tail(fs))

\* PipelineService.parseDate (cells hold text or nothing)
parseDate(dateVal) ==
  IF ~Truthy(dateVal) THEN Null
  ELSE TryFormats(Trim(JSString(dateVal)), formats)

(***************************************************************************)
(* Text helpers.                                                           *)
(***************************************************************************)
\* sub occurs in s at position i
MatchAt(s, sub, i) ==
  /\ i + Len(sub) - 1 <= Len(s)
  /\ \A j \in 1..Len(sub) : s[i + j - 1] = sub[j]

\* String.prototype.includes
Includes(s, sub) == \E i \in 1..(Len(s) + 1) : MatchAt(s, sub, i)

\* String.prototype.replace(sub, '') : removes the first occurrence
RemoveFirst(s, sub) ==
  IF ~Includes(s, sub) THEN s
  ELSE LET i == CHOOSE i \in 1..(Len(s) + 1) :
                  /\ MatchAt(s, sub, i)
                  /\ \A j \in 1..(i - 1) : ~MatchAt(s, sub, j)
       IN SubSeq(s, 1, i - 1) \o SubSeq(s, i + Len(sub), Len(s))

\* String.prototype.split(sep) for a one-character separator
RECURSIVE Split(_, _)
Split(s, sep) ==
  IF \A i \in 1..Len(s) : s[i] # sep THEN << s >>
  ELSE LET i == CHOOSE i \in 1..Len(s) :
                  s[i] = sep /\ \A j \in 1..(i - 1) : s[j] # sep
       IN << SubSeq(s, 1, i - 1) >> \o Split(SubSeq(s, i + 1, Len(s)), sep)

LowerChar(c) ==
  CASE c = "A" -> "a" [] c = "B" -> "b" [] c = "C" -> "c" [] c = "D" -> "d"
    [] c = "P" -> "p" [] c = "X" -> "x"
    [] OTHER -> c

\* String.prototype.toLowerCase
ToLower(s) == [i \in 1..Len(s) |-> LowerChar(s[i])]

\* element i of an array, undefined past its end
At(arr, i) == IF i \in 1..Len(arr) THEN Str(arr[i]) ELSE Undef

\* row[key]: undefined when the sheet has no such cell
Cell(row, key) == IF key \in DOMAIN row THEN row[key] ELSE Undef

(***************************************************************************)
(* Field extractors.  Korean literals are written romanised:               *)
(*   jiha = 지하, jisang = 지상, ilwon = 일원, DAPA = 방위사업청           *)
(***************************************************************************)
jiha == << "j", "i", "h", "a" >>

jisang == << "j", "i", "s", "a", "n", "g" >>

ilwon == << "i", "l", "w", "o", "n" >>

DAPA == << "D", "A", "P", "A" >>

RECURSIVE SkipSpaces(_)
SkipSpaces(s) == IF s # << >> /\ IsSpace(Head(s)) THEN SkipSpaces(Tail(s)) ELSE s

\* the regex  type\s*(\d+)  matches text at position i
FloorMatchAt(text, type, i) ==
  /\ MatchAt(text, type, i)
  /\ LET rest == SkipSpaces(SubSeq(text, i + Len(type), Len(text)))
     IN rest # << >> /\ IsDigit(Head(rest))

\* PipelineService.extractFloors
extractFloors(text, type) ==
  IF \A i \in 1..Len(text) : ~FloorMatchAt(text, type, i) THEN Null
  ELSE LET i == CHOOSE i \in 1..Len(text) :
                  /\ FloorMatchAt(text, type, i)
                  /\ \A j \in 1..(i - 1) : ~FloorMatchAt(text, type, j)
           rest == SkipSpaces(SubSeq(text, i + Len(type), Len(text)))
       IN Num(DigitsToNat(SubSeq(rest, 1, TakeDigits(rest, Len(rest)))))

\* lowest index of a character of set cs in s, 0 when there is none
\* (String.prototype.search, plus one)
Search(s, cs) ==
  IF \A i \in 1..Len(s) : s[i] \notin cs THEN 0
  ELSE CHOOSE i \in 1..Len(s) : s[i] \in cs /\ \A j \in 1..(i - 1) : s[j] \notin cs

Closing == { "]", ")" }

Opening == { "[", "(" }

\* PipelineService.cleanProjectName (name is text or missing)
cleanProjectName(name) ==
  IF ~Truthy(name) \/ Len(name.s) <= 4 THEN name
  ELSE LET s == name.s
           bracketIndex == Search(SubSeq(s, 1, 4), Closing)
           fullBracketIndex == Search(s, Closing)
           openingIndex == Search(SubSeq(s, 1, fullBracketIndex - 1), Opening)
       IN IF bracketIndex # 0
          THEN Str(Trim(SubSeq(s, bracketIndex + 1, Len(s))))
          ELSE IF fullBracketIndex # 0 /\ openingIndex # 0
                  /\ Len(Trim(SubSeq(s, 1, openingIndex - 1))) <= 3
          THEN Str(Trim(SubSeq(s, fullBracketIndex + 1, Len(s))))
          ELSE name

\* PipelineService.containsExcludedKeyword
containsExcludedKeyword(name, keywords) ==
  IF ~Truthy(name) THEN FALSE
  ELSE \E i \in 1..Len(keywords) :
         Includes(ToLower(name.s), ToLower(Trim(keywords[i])))

(***************************************************************************)
(* extractAmount.  geumaek = 금액, gongsabi = 공사비,                      *)
(* gongsageumaek = 공사금액.                                               *)
(***************************************************************************)
geumaek == << "g", "e", "u", "m", "a", "e", "k" >>

gongsabi == << "g", "o", "n", "g", "s", "a", "b", "i" >>

gongsageumaek == << "g", "o", "n", "g", "s", "a" >> \o geumaek

\* length of the groups (?:,\d{3})* at the head of s
RECURSIVE GroupsLen(_)
GroupsLen(s) ==
  IF Len(s) >= 4 /\ s[1] = "," /\ TakeDigits(Tail(s), 3) = 3
  THEN 4 + GroupsLen(SubSeq(s, 5, Len(s))) ELSE 0

\* length of the match of \d{1,3}(?:,\d{3})*(?:\.\d+)? at the head of s, 0 if none
NumberLen(s) ==
  LET a == TakeDigits(s, 3)
      b == GroupsLen(SubSeq(s, a + 1, Len(s)))
      r == SubSeq(s, a + b + 1, Len(s))
      c == IF r # << >> /\ Head(r) = "." /\ TakeDigits(Tail(r), Len(r)) > 0
           THEN 1 + TakeDigits(Tail(r), Len(r)) ELSE 0
  IN IF a = 0 THEN 0 ELSE a + b + c

\* the text after  label\s*[:]?\s*  when label occurs at position i
AfterLabel(text, label, i) ==
  LET r1 == SkipSpaces(SubSeq(text, i + Len(label), Len(text)))
      r2 == IF r1 # << >> /\ Head(r1) = ":" THEN Tail(r1) ELSE r1
  IN SkipSpaces(r2)

AmountMatchAt(text, label, i) ==
  MatchAt(text, label, i) /\ NumberLen(AfterLabel(text, label, i)) > 0

RECURSIVE TryAmount(_, _)
TryAmount(text, labels) ==
  IF labels = << >> THEN Null
  ELSE IF \A i \in 1..Len(text) : ~AmountMatchAt(text, Head(labels), i)
  THEN TryAmount(text, Tail(labels))
  ELSE LET i == CHOOSE i \in 1..Len(text) :
                  /\ AmountMatchAt(text, Head(labels), i)
                  /\ \A j \in 1..(i - 1) : ~AmountMatchAt(text, Head(labels), j)
           r == AfterLabel(text, Head(labels), i)
       IN Str(SelectSeq(SubSeq(r, 1, NumberLen(r)), LAMBDA c : c # ","))

\* PipelineService.extractAmount
extractAmount(text) == TryAmount(text, << geumaek, gongsabi, gongsageumaek >>)

(***************************************************************************)
(* Normalizers.                                                            *)
(***************************************************************************)
sourceA == Str(<< "0", "1" >>)

sourceB == Str(<< "0", "2" >>)

\* the body of whobuildsData.map: one raw Source-A row to a project
NormalizeWhobuilds(row) ==
  LET originalConstr == Str(JSString(OrElse(Cell(row, "constr"), EmptyStr)))
      dateRange == Split(JSString(OrElse(Cell(row, "dateRange"), EmptyStr)), "~")
      overview == JSString(OrElse(Cell(row, "overview"), EmptyStr))
  IN [f \in { "No.", "name", "completion", "address", "agency", "contractor",
              "bFloors", "gFloors", "source", "amount", "_originalConstr" } |->
       CASE f = "No." -> EmptyStr
         [] f = "name" -> Cell(row, "name")
         [] f = "completion" -> OrElse(parseDate(At(dateRange, 2)), EmptyStr)
         [] f = "address" ->
              Str(RemoveFirst(JSString(OrElse(Cell(row, "address"), EmptyStr)), ilwon))
         [] f = "agency" -> Cell(row, "agency")
         [] f = "contractor" -> Cell(row, "contractor")
         [] f = "bFloors" -> OrElse(extractFloors(overview, jiha), EmptyStr)
         [] f = "gFloors" -> OrElse(extractFloors(overview, jisang), EmptyStr)
         [] f = "source" -> sourceA
         [] f = "amount" -> OrElse(extractAmount(overview), EmptyStr)
         [] OTHER -> originalConstr]

\* the body of rawNarajang.map: one raw Source-B row to a project
NormalizeNarajang(row) ==
  LET originalConstr == Str(JSString(OrElse(Cell(row, "constr"), EmptyStr)))
  IN [f \in { "No.", "name", "completion", "address", "agency", "contractor",
              "bFloors", "gFloors", "source", "amount", "_originalConstr" } |->
       CASE f = "No." -> EmptyStr
         [] f = "name" -> cleanProjectName(Cell(row, "name"))
         [] f = "completion" -> OrElse(parseDate(Cell(row, "completion")), EmptyStr)
         [] f = "address" -> OrElse(Cell(row, "address"), EmptyStr)
         [] f = "agency" -> Cell(row, "agency")
         [] f = "contractor" -> Cell(row, "contractor")
         [] f = "bFloors" -> EmptyStr
         [] f = "gFloors" -> EmptyStr
         [] f = "source" -> sourceB
         [] f = "amount" -> OrElse(Cell(row, "amount"), Num(0))
         [] OTHER -> originalConstr]

\* a method of String is called on a value that is not a string: TypeError
\* (mapRegion, cleanProjectName and containsExcludedKeyword guard with !x only)
NotText(v) == Truthy(v) /\ v.k # "string"

RowThrows(row) == NotText(Cell(row, "address")) \/ NotText(Cell(row, "name"))

(***************************************************************************)
(* Eligibility filters.                                                    *)
(***************************************************************************)
\* Number(v) for the values a floor or amount field holds
ToNumber(v) ==
  CASE v.k = "number" -> v.n
    [] v.k = "string" -> DigitsToNat(v.s)
    [] OTHER -> 0

\* dateCheck with > in place of >=
dateCheck_strict(p, cutoffDateStr) ==
  /\ Truthy(p["completion"])
  /\ StrGE(p["completion"].s, cutoffDateStr)
  /\ p["completion"].s # cutoffDateStr

\* p["completion"] && p["completion"] >= cutoffDateStr
dateCheck(p, cutoffDateStr) ==
  Truthy(p["completion"]) /\ StrGE(p["completion"].s, cutoffDateStr)

constrCheck(p, cfg) ==
  \A i \in 1..Len(cfg.excludedTypes) : cfg.excludedTypes[i] # p["_originalConstr"].s

keywordCheck(p, cfg) == ~containsExcludedKeyword(p["name"], cfg.excludedKeywords)

\* the predicate of the Source-A filter
KeepWhobuilds(p, cfg, cutoffDateStr) ==
  LET isDefenseAgency == Includes(JSString(p["agency"]), DAPA)
  IN /\ ~isDefenseAgency
     /\ dateCheck(p, cutoffDateStr)
     /\ constrCheck(p, cfg)
     /\ keywordCheck(p, cfg)

\* KeepNarajang with amt > cfg.minContractAmount in place of >=
KeepNarajang_strict(p, cfg, cutoffDateStr) ==
  LET amt == ToNumber(p["amount"])
      amtCheck == amt > cfg.minContractAmount
  IN /\ amtCheck
     /\ dateCheck(p, cutoffDateStr)
     /\ constrCheck(p, cfg)
     /\ keywordCheck(p, cfg)

\* the predicate of the Source-B filter
KeepNarajang(p, cfg, cutoffDateStr) ==
  LET amt == ToNumber(p["amount"])
      amtCheck == amt >= cfg.minContractAmount
  IN /\ amtCheck
     /\ dateCheck(p, cutoffDateStr)
     /\ constrCheck(p, cfg)
     /\ keywordCheck(p, cfg)

\* KeepFloors that lets a record pass only when both counts are present
KeepFloors_absentFails(p) ==
  /\ p["bFloors"] # EmptyStr /\ ToNumber(p["bFloors"]) < 10
  /\ p["gFloors"] # EmptyStr /\ ToNumber(p["gFloors"]) < 100

\* KeepFloors with <= in place of <
KeepFloors_inclusive(p) ==
  LET bOk == p["bFloors"] = EmptyStr \/ ToNumber(p["bFloors"]) <= 10
      gOk == p["gFloors"] = EmptyStr \/ ToNumber(p["gFloors"]) <= 100
  IN bOk /\ gOk

\* the predicate of the merged-set filter
KeepFloors(p) ==
  LET bOk == p["bFloors"] = EmptyStr \/ ToNumber(p["bFloors"]) < 10
      gOk == p["gFloors"] = EmptyStr \/ ToNumber(p["gFloors"]) < 100
  IN bOk /\ gOk

\* whobuildsData.map(...).filter(...)
ProcessWhobuilds(whobuildsData, cfg, cutoffDateStr) ==
  SelectSeq([i \in 1..Len(whobuildsData) |-> NormalizeWhobuilds(whobuildsData[i])],
            LAMBDA p : KeepWhobuilds(p, cfg, cutoffDateStr))

\* rawNarajang.map(...).filter(...)
ProcessNarajang(rawNarajang, cfg, cutoffDateStr) ==
  SelectSeq([i \in 1..Len(rawNarajang) |-> NormalizeNarajang(rawNarajang[i])],
            LAMBDA p : KeepNarajang(p, cfg, cutoffDateStr))

\* MergeNew without the filter of lines 245-251
MergeNew_unfiltered(whobuildsProcessed, narajangProcessed) ==
  whobuildsProcessed \o narajangProcessed

\* lines 244-251
MergeNew(whobuildsProcessed, narajangProcessed) ==
  SelectSeq(whobuildsProcessed \o narajangProcessed, KeepFloors)

(***************************************************************************)
(* Deduplication against the master, merge and renumbering.                *)
(***************************************************************************)
keyCols == << "name", "agency", "contractor", "address" >>

\* KeyText without the default: String(item[key]).trim()
KeyText_noDefault(item, key) == Trim(JSString(Cell(item, key)))

\* String(item[key] || "").trim()
KeyText(item, key) == Trim(JSString(OrElse(Cell(item, key), EmptyStr)))

\* existingMaster.some(masterItem => keyCols.every(...))
isDuplicate(newItem, existingMaster) ==
  \E m \in 1..Len(existingMaster) :
    \A k \in 1..Len(keyCols) :
      KeyText(newItem, keyCols[k]) = KeyText(existingMaster[m], keyCols[k])

\* Deduplicate with the else of line 277 missing: every record is pushed onto
\* uniqueNew
RECURSIVE Deduplicate_noElse(_, _, _, _)
Deduplicate_noElse(mergedNew, existingMaster, i, acc) ==
  IF i > Len(mergedNew) THEN acc
  ELSE Deduplicate_noElse(mergedNew, existingMaster, i + 1,
         IF isDuplicate(mergedNew[i], existingMaster)
         THEN [acc EXCEPT !.duplicates = Append(@, mergedNew[i]),
                          !.uniqueNew = Append(@, mergedNew[i])]
         ELSE [acc EXCEPT !.uniqueNew = Append(@, mergedNew[i])])

\* mergedNew.forEach: the records from position i on are pushed onto
\* acc.duplicates or acc.uniqueNew
RECURSIVE Deduplicate(_, _, _, _)
Deduplicate(mergedNew, existingMaster, i, acc) ==
  IF i > Len(mergedNew) THEN acc
  ELSE Deduplicate(mergedNew, existingMaster, i + 1,
         IF isDuplicate(mergedNew[i], existingMaster)
         THEN [acc EXCEPT !.duplicates = Append(@, mergedNew[i])]
         ELSE [acc EXCEPT !.uniqueNew = Append(@, mergedNew[i])])

\* { ...p, "No.": i }
WithNo(p, i) == [f \in DOMAIN p \cup { "No." } |-> IF f = "No." THEN Num(i) ELSE p[f]]

\* Renumber without the destructuring: { "No.": i, ...p }, the record's own
\* "No." wins
Renumber_keepNo(p, i) ==
  [f \in DOMAIN p \cup { "No." } |-> IF f \in DOMAIN p THEN p[f] ELSE Num(i)]

\* const { "No.": _, ...rest } = p; return { "No.": i, ...rest }
Renumber(p, i) ==
  LET rest == [f \in DOMAIN p \ { "No." } |-> p[f]]
  IN [f \in DOMAIN rest \cup { "No." } |-> IF f = "No." THEN Num(i) ELSE rest[f]]

\* uniqueNew.map((p, i) => ({ ...p, "No.": i + 1 }))
ResultDf(uniqueNew) == [i \in 1..Len(uniqueNew) |-> WithNo(uniqueNew[i], i)]

\* UpdatedMaster with the new records first: [...uniqueNew, ...existingMaster]
UpdatedMaster_newFirst(existingMaster, uniqueNew) ==
  LET all == uniqueNew \o existingMaster
  IN [i \in 1..Len(all) |-> Renumber(all[i], i)]

\* [...existingMaster, ...uniqueNew].map(...)
UpdatedMaster(existingMaster, uniqueNew) ==
  LET all == existingMaster \o uniqueNew
  IN [i \in 1..Len(all) |-> Renumber(all[i], i)]

(***************************************************************************)
(* downloadAll: the files handed to exportExcel, in order.                 *)
(***************************************************************************)
\* Ceil with Math.floor in place of Math.ceil
Ceil_floor(n, c) == n \div c

\* Math.ceil(n / c) for c > 0
Ceil(n, c) == (n + c - 1) \div c

\* resultDf.slice(i * c, (i + 1) * c), i counted from 0
Slice(resultDf, i, c) ==
  SubSeq(resultDf, i * c + 1,
         IF (i + 1) * c < Len(resultDf) THEN (i + 1) * c ELSE Len(resultDf))

\* chunk.map((p, idx) => ({ ...p, "No.": idx + 1 }))
ChunkData(chunk) == [idx \in 1..Len(chunk) |-> WithNo(chunk[idx], idx)]

\* the pass of the for loop with counter i and those after it
RECURSIVE ChunkFiles(_, _, _, _)
ChunkFiles(resultDf, c, i, numChunks) ==
  IF ~(i < numChunks) THEN << >>
  ELSE << [kind |-> "chunk", tag |-> Pad(NatToStr(i + 1), 2),
           data |-> ChunkData(Slice(resultDf, i, c))] >>
       \o ChunkFiles(resultDf, c, i + 1, numChunks)

ExportFiles(res) ==
  (IF Len(res.duplicates) > 0
   THEN << [kind |-> "duplicates", tag |-> res.dateTag, data |-> res.duplicates] >>
   ELSE << >>)
  \o << [kind |-> "upload", tag |-> res.dateTag, data |-> res.resultDf] >>
  \o << [kind |-> "master", tag |-> res.dateTag, data |-> res.updatedMaster] >>
  \o ChunkFiles(res.resultDf, res.chunkSize, 0, Ceil(Len(res.resultDf), res.chunkSize))

(***************************************************************************)
(* State.                                                                  *)
(***************************************************************************)
VARIABLES
  whobuildsFiles,      \* App state: the selected Source-A files
  narajangFile,        \* App state: the selected Source-B file or Null
  masterFile,          \* App state: the selected master file or Null
  chunkSize,           \* App state
  completionOffset,    \* App state
  minAmount,           \* App state
  isProcessing,        \* App state
  logs,                \* App state: the log shown on the page
  results,             \* App state: Null or the value runPipeline returned
  svcLogs,             \* PipelineService.logs of the shared instance
  pc,                  \* where the run is: idle, readA, readB, readM, hung
  run,                 \* the arguments of the runPipeline call in progress
  fileIdx,             \* position of the for loop over whobuildsFiles
  whobuildsData,       \* locals of runPipeline ...
  whobuildsProcessed,
  narajangProcessed,
  mergedNew,
  existingMaster,
  uniqueNew,
  disk,                \* the rows of each file, by file name
  now,                 \* the day new Date() returns
  exported,            \* the files handed to exportExcel by the last downloadAll
  trace,               \* history: reads started and ended, stages run, this run
  everSucceeded,       \* history: some run on this page has returned a result
  masterSaved          \* history: a master sheet holds an exported integrated file

vars == << whobuildsFiles, narajangFile, masterFile, chunkSize, completionOffset,
           minAmount, isProcessing, logs, results, svcLogs, pc, run, fileIdx,
           whobuildsData, whobuildsProcessed, narajangProcessed, mergedNew,
           existingMaster, uniqueNew, disk, now, masterSaved, exported, trace, everSucceeded >>

appVars == << whobuildsFiles, narajangFile, masterFile, chunkSize, completionOffset,
             minAmount >>

File(name) == [name |-> name]

Entry(level, message, file, n, m) ==
  [level |-> level, message |-> message, file |-> file, n |-> n, m |-> m]

Event(ev, file, n) == [ev |-> ev, file |-> file, n |-> n]

\* this.log(message, level)
Log(L, level, message, file, n, m) ==
  [L EXCEPT !.logs = Append(@, Entry(level, message, file, n, m))]

Ev(L, ev, file, n) == [L EXCEPT !.trace = Append(@, Event(ev, file, n))]

(***************************************************************************)
(* runPipeline, cut at its awaits.  L holds the locals; each operator runs *)
(* the code from one point up to the next await, the return or a throw.    *)
(***************************************************************************)
\* this.log("Reading ..."); await this.readExcel(file)
StartRead(L, at, message, file) ==
  [Ev(Log(L, "info", message, file.name, 0, 0), "readStart", file.name, 0)
     EXCEPT !.pc = at]

\* lines 264-290: deduplication, renumbering, return
Finish(r, L) ==
  LET d  == Deduplicate(L.mergedNew, L.existingMaster, 1,
                        [duplicates |-> << >>, uniqueNew |-> << >>])
      L1 == Ev(L, "deduplicate", "", Len(L.mergedNew))
      L2 == Log(L1, "info", "Deduplication", "", Len(d.duplicates), Len(d.uniqueNew))
      updatedMaster == UpdatedMaster(L.existingMaster, d.uniqueNew)
      L3 == Log(L2, "success", "Final Master size", "", Len(updatedMaster), 0)
  IN [L3 EXCEPT !.pc = "done",
                !.uniqueNew = d.uniqueNew,
                !.result = [resultDf |-> ResultDf(d.uniqueNew),
                            duplicates |-> d.duplicates,
                            updatedMaster |-> updatedMaster,
                            dateTag |-> FormatTag(r.config.today),
                            chunkSize |-> r.config.chunkSize]]

\* lines 256-262
HandleMaster(r, L) ==
  IF r.masterFile # Null
  THEN StartRead(L, "readM", "Reading Master file", r.masterFile)
  ELSE Finish(r, L)

AfterMaster(r, L, rawMaster) ==
  Finish(r, Log([L EXCEPT !.existingMaster = rawMaster],
                "info", "Existing Master contains", "", Len(rawMaster), 0))

\* lines 244-253
Merge(r, L) ==
  LET m  == MergeNew(L.whobuildsProcessed, L.narajangProcessed)
      L1 == Ev([L EXCEPT !.mergedNew = m], "filterMerged",
               "", Len(L.whobuildsProcessed) + Len(L.narajangProcessed))
  IN HandleMaster(r, Log(L1, "info", "Combined and Validated New Data", "", Len(m), 0))

\* lines 192-195
HandleNarajang(r, L) ==
  IF r.narajangFile # Null
  THEN StartRead(L, "readB", "Reading Narajang file", r.narajangFile)
  ELSE Merge(r, L)

\* lines 196-241
AfterNarajang(r, L, rawNarajang) ==
  LET L1 == Ev(L, "processNarajang", "", Len(rawNarajang))
  IN IF \E i \in 1..Len(rawNarajang) : RowThrows(rawNarajang[i])
     THEN [L1 EXCEPT !.pc = "failed"]
     ELSE LET np == ProcessNarajang(rawNarajang, r.config, r.cutoffDateStr)
          IN Merge(r, Log([L1 EXCEPT !.narajangProcessed = np],
                          "info", "Narajang post-filter", "", Len(np), 0))

\* lines 135-189, after the last Source-A file has been read (or with none)
AfterWhobuilds(r, L) ==
  LET data == L.whobuildsData
      L1 == IF Len(r.whobuildsFiles) > 0
            THEN Log(L, "info", "Loaded records from Whobuilds", "", Len(data), 0)
            ELSE L
      L2 == Ev(L1, "processWhobuilds", "", Len(data))
  IN IF \E i \in 1..Len(data) : RowThrows(data[i])
     THEN [L2 EXCEPT !.pc = "failed"]
     ELSE LET wp == ProcessWhobuilds(data, r.config, r.cutoffDateStr)
              L3 == [L2 EXCEPT !.whobuildsProcessed = wp]
          IN HandleNarajang(r, IF Len(data) > 0
                               THEN Log(L3, "info", "Whobuilds post-filter", "", Len(wp), 0)
                               ELSE L3)

\* ReadWhobuilds walking the files from the last to the first
ReadWhobuilds_reversed(r, L, i) ==
  [StartRead(L, "readA", "Reading Whobuilds file",
             r.whobuildsFiles[Len(r.whobuildsFiles) + 1 - i])
     EXCEPT !.fileIdx = i]

\* one pass of the for loop of lines 130-134, from the read of file i on
ReadWhobuilds(r, L, i) ==
  [StartRead(L, "readA", "Reading Whobuilds file", r.whobuildsFiles[i])
     EXCEPT !.fileIdx = i]

\* lines 123-129
Begin(r) ==
  LET L0 == [pc |-> "idle", fileIdx |-> 0, logs |-> << >>, trace |-> << >>,
             whobuildsData |-> << >>, whobuildsProcessed |-> << >>,
             narajangProcessed |-> << >>, mergedNew |-> << >>,
             existingMaster |-> << >>, uniqueNew |-> << >>, result |-> Null]
      L1 == Log(L0, "info", "Pipeline starting", "", 0, 0)
      L2 == Log(L1, "info", "Completion date filter (Cutoff)", "",
                r.config.completionOffsetDays, 0)
  IN IF Len(r.whobuildsFiles) > 0
     THEN ReadWhobuilds(r, L2, 1)
     ELSE AfterWhobuilds(r, L2)

\* the locals as they stand in the state
Locals ==
  [pc |-> pc, fileIdx |-> fileIdx, logs |-> svcLogs, trace |-> trace,
   whobuildsData |-> whobuildsData, whobuildsProcessed |-> whobuildsProcessed,
   narajangProcessed |-> narajangProcessed, mergedNew |-> mergedNew,
   existingMaster |-> existingMaster, uniqueNew |-> uniqueNew, result |-> Null]

errorEntry == Entry("error", "error occurred", "", 0, 0)

\* the state after runPipeline ran up to L: an await, the return (lines 65-66
\* and 77 of App.tsx) or a throw (lines 67-77)
Commit(L, app) ==
  /\ fileIdx' = L.fileIdx
  /\ trace' = L.trace
  /\ whobuildsData' = L.whobuildsData
  /\ whobuildsProcessed' = L.whobuildsProcessed
  /\ narajangProcessed' = L.narajangProcessed
  /\ mergedNew' = L.mergedNew
  /\ existingMaster' = L.existingMaster
  /\ uniqueNew' = L.uniqueNew
  /\ CASE L.pc = "done" ->
            /\ pc' = "idle"
            /\ svcLogs' = L.logs
            /\ results' = L.result
            /\ logs' = L.logs
            /\ isProcessing' = FALSE
            /\ everSucceeded' = TRUE
       [] L.pc = "failed" ->
            /\ pc' = "idle"
            /\ svcLogs' = Append(L.logs, errorEntry)
            /\ results' = app.results
            /\ logs' = Append(L.logs, errorEntry)
            /\ isProcessing' = FALSE
            /\ everSucceeded' = everSucceeded
       [] OTHER ->
            /\ pc' = L.pc
            /\ svcLogs' = L.logs
            /\ results' = app.results
            /\ logs' = app.logs
            /\ isProcessing' = app.isProcessing
            /\ everSucceeded' = everSucceeded

(***************************************************************************)
(* The world of the model: the clock, the files that can be selected and   *)
(* the values the form fields take.                                        *)
(***************************************************************************)
\* new Date() during the runs of the model: 2024-12-30
Clock == DaysFromCivil(2024, 12, 30)

WhobuildsNames == { "wb1", "wb2" }

NarajangNames == { "nj1" }

MasterNames == { "ms1" }

defaultChunkSize == 500

ChunkSizes == (1..MaxChunk) \cup { defaultChunkSize }

Offsets == { 0, 30 }

defaultCompletionOffset == 30

defaultMinAmount == 10000000

\* the values typed into the minimum contract amount input
MinAmounts == { 0, 3, defaultMinAmount }

\* the excluded lists of the form, after split(',') / trim / filter
excludedTypes == << << "T", "9" >> >>

excludedKeywords == << << "x", "x" >> >>

\* a Source-A row
RowA(name, agency, contractor, address, start, end, overview) ==
  [f \in { "constr", "name", "agency", "contractor", "address", "dateRange",
           "overview" } |->
     CASE f = "constr" -> Str(<< "T", "1" >>)
       [] f = "name" -> name
       [] f = "agency" -> agency
       [] f = "contractor" -> contractor
       [] f = "address" -> address
       [] f = "dateRange" -> Str(start \o << "~" >> \o end)
       [] OTHER -> Str(overview)]

\* a Source-B row
RowB(name, agency, contractor, address, end, amount) ==
  [f \in { "constr", "name", "agency", "contractor", "address", "completion",
           "amount" } |->
     CASE f = "constr" -> Str(<< "T", "2" >>)
       [] f = "name" -> name
       [] f = "agency" -> agency
       [] f = "contractor" -> contractor
       [] f = "address" -> address
       [] f = "completion" -> Str(end)
       [] OTHER -> amount]

\* a row of a master sheet with a "No." cell
RowM(no, name, agency, contractor, address) ==
  [f \in { "No.", "name", "agency", "contractor", "address" } |->
     CASE f = "No." -> no
       [] f = "name" -> name
       [] f = "agency" -> agency
       [] f = "contractor" -> contractor
       [] OTHER -> address]

\* the same without the "No." cell
RowM0(name, agency, contractor, address) ==
  [f \in { "name", "agency", "contractor", "address" } |->
     CASE f = "name" -> name
       [] f = "agency" -> agency
       [] f = "contractor" -> contractor
       [] OTHER -> address]

Disk0 ==
  [n \in WhobuildsNames \cup NarajangNames \cup MasterNames |->
     CASE n = "wb1" ->
            << RowA(Str(<< "a" >>), Str(<< "g" >>), Str(<< "c" >>),
                    Str(<< "s", " " >> \o ilwon),
                    FormatTag(Clock - 30), FormatISO(Clock + 30),
                    jiha \o << " ", "2" >>),
               RowA(Str(<< "b" >>), Str(<< "g" >>), Str(<< "c" >>), Str(<< "s" >>),
                    FormatTag(Clock - 30), FormatTag(Clock + 1), << >>) >>
       [] n = "wb2" ->
            << RowA(Str(<< " ", "z" >>), Undef, Str(<< "c" >>), Str(<< "s" >>),
                    << >>, FormatISO(Clock + 40), << >>) >>
       [] n = "nj1" ->
            << RowB(Str(<< "[", "n", "]", "a", "b" >>), Str(<< "g" >>),
                    Str(<< "c" >>), Str(<< "s" >>),
                    FormatISO(Clock + 31), Num(defaultMinAmount)) >>
       [] OTHER ->
            << RowM(Num(7), Str(<< "a" >>), Str(<< "g" >>), Str(<< "c" >>),
                    Str(<< "s" >>)),
               RowM0(Str(<< "z" >>), Undef, Str(<< "c" >>), Str(<< "s" >>)) >>]

(***************************************************************************)
(* Actions.                                                                *)
(***************************************************************************)
\* the page with the form filled in: files wf, nf, mf selected, chunk size cs
\* and offset off entered
Page(wf, nf, mf, cs, off) ==
  /\ whobuildsFiles = wf
  /\ narajangFile = nf
  /\ masterFile = mf
  /\ chunkSize = cs
  /\ completionOffset = off
  /\ minAmount = defaultMinAmount
  /\ isProcessing = FALSE
  /\ logs = << >>
  /\ results = Null
  /\ svcLogs = << >>
  /\ pc = "idle"
  /\ run = Null
  /\ fileIdx = 0
  /\ whobuildsData = << >>
  /\ whobuildsProcessed = << >>
  /\ narajangProcessed = << >>
  /\ mergedNew = << >>
  /\ existingMaster = << >>
  /\ uniqueNew = << >>
  /\ exported = << >>
  /\ trace = << >>
  /\ everSucceeded = FALSE
  /\ masterSaved = FALSE

\* the page as first rendered
Init ==
  /\ Page(<< >>, Null, Null, defaultChunkSize, defaultCompletionOffset)
  /\ disk = Disk0
  /\ now = Clock

\* handleWhobuildsUpload
HandleWhobuildsUpload ==
  /\ Len(whobuildsFiles) < MaxWhobuildsFiles
  /\ \E n \in WhobuildsNames : whobuildsFiles' = Append(whobuildsFiles, File(n))
  /\ UNCHANGED << narajangFile, masterFile, chunkSize, completionOffset,
                  minAmount, isProcessing, logs, results, svcLogs, pc, run, fileIdx,
                  whobuildsData, whobuildsProcessed, narajangProcessed, mergedNew,
                  existingMaster, uniqueNew, disk, now, masterSaved, exported, trace, everSucceeded >>

\* onClick={() => setWhobuildsFiles([])}
ClearWhobuildsFiles ==
  /\ whobuildsFiles # << >>
  /\ whobuildsFiles' = << >>
  /\ UNCHANGED << narajangFile, masterFile, chunkSize, completionOffset,
                  minAmount, isProcessing, logs, results, svcLogs, pc, run, fileIdx,
                  whobuildsData, whobuildsProcessed, narajangProcessed, mergedNew,
                  existingMaster, uniqueNew, disk, now, masterSaved, exported, trace, everSucceeded >>

\* onChange of the Source-B file input
SetNarajangFile ==
  /\ \E n \in NarajangNames : narajangFile' = File(n)
  /\ UNCHANGED << whobuildsFiles, masterFile, chunkSize, completionOffset,
                  minAmount, isProcessing, logs, results, svcLogs, pc, run, fileIdx,
                  whobuildsData, whobuildsProcessed, narajangProcessed, mergedNew,
                  existingMaster, uniqueNew, disk, now, masterSaved, exported, trace, everSucceeded >>

\* onChange of the master file input
SetMasterFile ==
  /\ \E n \in MasterNames : masterFile' = File(n)
  /\ UNCHANGED << whobuildsFiles, narajangFile, chunkSize, completionOffset,
                  minAmount, isProcessing, logs, results, svcLogs, pc, run, fileIdx,
                  whobuildsData, whobuildsProcessed, narajangProcessed, mergedNew,
                  existingMaster, uniqueNew, disk, now, masterSaved, exported, trace, everSucceeded >>

\* onChange of the chunk size input
SetChunkSize ==
  /\ \E c \in ChunkSizes : chunkSize' = c
  /\ UNCHANGED << whobuildsFiles, narajangFile, masterFile, completionOffset,
                  minAmount, isProcessing, logs, results, svcLogs, pc, run, fileIdx,
                  whobuildsData, whobuildsProcessed, narajangProcessed, mergedNew,
                  existingMaster, uniqueNew, disk, now, masterSaved, exported, trace, everSucceeded >>

\* onChange of the completion offset slider
SetCompletionOffset ==
  /\ \E o \in Offsets : completionOffset' = o
  /\ UNCHANGED << whobuildsFiles, narajangFile, masterFile, chunkSize,
                  minAmount, isProcessing, logs, results, svcLogs, pc, run, fileIdx,
                  whobuildsData, whobuildsProcessed, narajangProcessed, mergedNew,
                  existingMaster, uniqueNew, disk, now, masterSaved, exported, trace, everSucceeded >>

\* onChange of the minimum contract amount input
SetMinAmount ==
  /\ \E a \in MinAmounts : minAmount' = a
  /\ UNCHANGED << whobuildsFiles, narajangFile, masterFile, chunkSize, completionOffset,
                  isProcessing, logs, results, svcLogs, pc, run, fileIdx,
                  whobuildsData, whobuildsProcessed, narajangProcessed, mergedNew,
                  existingMaster, uniqueNew, disk, now, masterSaved, exported, trace,
                  everSucceeded >>

\* Started without setResults(null)
Started_keepResults == [results |-> results, logs |-> << >>, isProcessing |-> TRUE]

\* lines 44-46: setIsProcessing(true); setResults(null); setLogs([])
Started == [results |-> Null, logs |-> << >>, isProcessing |-> TRUE]

\* ExecutePipeline with the button left enabled while a run is in progress
ExecutePipeline_enabled ==
  /\ ~(Len(whobuildsFiles) = 0 /\ narajangFile = Null)
  /\ LET config == [chunkSize |-> chunkSize,
                    today |-> now,
                    completionOffsetDays |-> completionOffset,
                    minContractAmount |-> minAmount,
                    excludedTypes |-> excludedTypes,
                    excludedKeywords |-> excludedKeywords]
         r == [whobuildsFiles |-> whobuildsFiles,
               narajangFile |-> narajangFile,
               masterFile |-> masterFile,
               config |-> config,
               cutoffDateStr |->
                 FormatISO(addDays(config.today, config.completionOffsetDays))]
     IN /\ run' = r
        /\ \E L \in { Begin(r) } : Commit(L, Started)
  /\ exported' = << >>
  /\ UNCHANGED << appVars, disk, now, masterSaved >>

\* executePipeline up to the first await of runPipeline
ExecutePipeline ==
  /\ ~isProcessing
  /\ ~(Len(whobuildsFiles) = 0 /\ narajangFile = Null)
  /\ LET config == [chunkSize |-> chunkSize,
                    today |-> now,
                    completionOffsetDays |-> completionOffset,
                    minContractAmount |-> minAmount,
                    excludedTypes |-> excludedTypes,
                    excludedKeywords |-> excludedKeywords]
         r == [whobuildsFiles |-> whobuildsFiles,
               narajangFile |-> narajangFile,
               masterFile |-> masterFile,
               config |-> config,
               cutoffDateStr |->
                 FormatISO(addDays(config.today, config.completionOffsetDays))]
     IN /\ run' = r
        /\ \E L \in { Begin(r) } : Commit(L, Started)
  /\ exported' = << >>
  /\ UNCHANGED << appVars, disk, now, masterSaved >>

\* the App state as it stands
App == [results |-> results, logs |-> logs, isProcessing |-> isProcessing]

\* reader.onload of a Source-A file, the workbook parses
OnLoadWhobuilds ==
  /\ pc = "readA"
  /\ LET file == run.whobuildsFiles[fileIdx]
         data == disk[file.name]
         L == [Ev(Locals, "readEnd", file.name, Len(data))
                 EXCEPT !.whobuildsData = @ \o data]
     IN \E L1 \in { IF fileIdx < Len(run.whobuildsFiles)
                     THEN ReadWhobuilds(run, L, fileIdx + 1)
                     ELSE AfterWhobuilds(run, L) } : Commit(L1, App)
  /\ UNCHANGED << appVars, run, disk, now, masterSaved, exported >>

\* reader.onload of the Source-B file, the workbook parses
OnLoadNarajang ==
  /\ pc = "readB"
  /\ LET data == disk[run.narajangFile.name]
     IN \E L \in { AfterNarajang(run, Ev(Locals, "readEnd", run.narajangFile.name,
                                         Len(data)), data) } : Commit(L, App)
  /\ UNCHANGED << appVars, run, disk, now, masterSaved, exported >>

\* reader.onload of the master file, the workbook parses
OnLoadMaster ==
  /\ pc = "readM"
  /\ LET data == disk[run.masterFile.name]
     IN \E L \in { AfterMaster(run, Ev(Locals, "readEnd", run.masterFile.name,
                                       Len(data)), data) } : Commit(L, App)
  /\ UNCHANGED << appVars, run, disk, now, masterSaved, exported >>

\* reader.onload, XLSX.read throws inside the event handler: the promise of
\* readExcel is neither resolved nor rejected
OnLoadThrows ==
  /\ pc \in { "readA", "readB", "readM" }
  /\ pc' = "hung"
  /\ trace' = Append(trace, Event("parseThrew", "", 0))
  /\ UNCHANGED << appVars, isProcessing, logs, results, svcLogs, run, fileIdx,
                  whobuildsData, whobuildsProcessed, narajangProcessed, mergedNew,
                  existingMaster, uniqueNew, disk, now, masterSaved, exported, everSucceeded >>

\* reader.onerror: readExcel rejects, runPipeline rejects, catch and finally
OnError ==
  /\ pc \in { "readA", "readB", "readM" }
  /\ Commit([Ev(Locals, "readError", "", 0) EXCEPT !.pc = "failed"], App)
  /\ UNCHANGED << appVars, run, disk, now, masterSaved, exported >>

\* the files one call of downloadAll hands to exportExcel
DownloadFiles(res) == IF res = Null THEN << >> ELSE ExportFiles(res)

\* downloadAll
DownloadAll ==
  /\ exported' = DownloadFiles(results)
  /\ UNCHANGED << appVars, isProcessing, logs, results, svcLogs, pc, run, fileIdx,
                  whobuildsData, whobuildsProcessed, narajangProcessed, mergedNew,
                  existingMaster, uniqueNew, disk, now, masterSaved, trace, everSucceeded >>

\* onClick={() => setLogs([])}
ClearLogView ==
  /\ logs # << >>
  /\ logs' = << >>
  /\ UNCHANGED << appVars, isProcessing, results, svcLogs, pc, run, fileIdx,
                  whobuildsData, whobuildsProcessed, narajangProcessed, mergedNew,
                  existingMaster, uniqueNew, disk, now, masterSaved, exported, trace, everSucceeded >>

\* a row as sheet_to_json reads it back from an exported workbook: a cell
\* whose value was undefined does not exist; an empty text cell is read back
\* as "" (keepEmpty) or does not exist either
SheetRow(rec, keepEmpty) ==
  [f \in { g \in DOMAIN rec : rec[g] # Undef /\ (keepEmpty \/ rec[g] # EmptyStr) } |->
     rec[f]]

\* the integrated file written by downloadAll (exportExcel of line 89) is kept
\* as a master workbook, to be selected as the master of a later run
SaveExportedMaster ==
  /\ ~masterSaved
  /\ \E i \in 1..Len(exported), n \in MasterNames, keepEmpty \in BOOLEAN :
       /\ exported[i].kind = "master"
       /\ disk' = [disk EXCEPT ![n] =
                     [j \in 1..Len(exported[i].data) |->
                        SheetRow(exported[i].data[j], keepEmpty)]]
  /\ masterSaved' = TRUE
  /\ UNCHANGED << appVars, isProcessing, logs, results, svcLogs, pc, run, fileIdx,
                  whobuildsData, whobuildsProcessed, narajangProcessed, mergedNew,
                  existingMaster, uniqueNew, now, exported, trace, everSucceeded >>

Next ==
  \/ HandleWhobuildsUpload
  \/ ClearWhobuildsFiles
  \/ SetNarajangFile
  \/ SetMasterFile
  \/ SetCompletionOffset
  \/ ExecutePipeline
  \/ OnLoadWhobuilds
  \/ OnLoadNarajang
  \/ OnLoadMaster
  \/ OnLoadThrows
  \/ OnError
  \/ DownloadAll
  \/ ClearLogView

Spec == Init /\ [][Next]_vars

(***************************************************************************)
(* Deduplication and merge over bounded sets of new rows and master rows:  *)
(* one Source-A file and a master file are selected, the sheets hold any   *)
(* rows of DedupNewRows and DedupMasterRows.                               *)
(***************************************************************************)
SeqsUpTo(S, n) == UNION { [1..k -> S] : k \in 0..n }

\* Source-A rows that pass the filters and differ in their key cells
DedupNewRow(name, agency, contractor, address) ==
  RowA(name, agency, contractor, address, << >>, FormatISO(Clock + 40), << >>)

DedupNewRows ==
  { DedupNewRow(Str(<< " ", "a", " " >>), Str(<< "g" >>), Str(<< "c" >>), Str(<< "s" >>)),
    DedupNewRow(Str(<< "A" >>), Str(<< "g" >>), Str(<< "c" >>), Str(<< "s" >>)),
    DedupNewRow(Num(0), Str(<< "g" >>), Str(<< "c" >>), Str(<< "s" >>)),
    DedupNewRow(Str(<< "a" >>), Str(<< "h" >>), Str(<< "c" >>), Str(<< "s" >>)),
    DedupNewRow(Str(<< "a" >>), Str(<< "g" >>), Str(<< "d" >>), Str(<< "s" >>)),
    DedupNewRow(Str(<< "a" >>), Str(<< "g" >>), Str(<< "c" >>), Str(<< "t" >>)) }

DedupMasterRows ==
  { RowM(Num(7), Str(<< "a" >>), Str(<< "g" >>), Str(<< "c" >>), Str(<< "s" >>)),
    RowM0(Str(<< "a", " " >>), Str(<< "g", " " >>), Str(<< "c" >>), Str(<< " ", "s" >>)),
    RowM(Str(<< "x" >>), Undef, Str(<< "g" >>), Str(<< "c" >>), Str(<< "s" >>)),
    RowM(Num(7), Str(<< "a" >>), Str(<< "h" >>), Str(<< "c" >>), Str(<< "s" >>)) }

\* the sheets: wb holds rows a, nj rows b, ms rows m
DiskOf(a, b, m) ==
  [n \in WhobuildsNames \cup NarajangNames \cup MasterNames |->
     CASE n = "wb1" -> a
       [] n = "nj1" -> b
       [] n = "ms1" -> m
       [] OTHER -> << >>]

InitDedup ==
  /\ Page(<< File("wb1") >>, Null, File("ms1"), defaultChunkSize, defaultCompletionOffset)
  /\ now = Clock
  /\ \E a \in SeqsUpTo(DedupNewRows, MaxNew), m \in SeqsUpTo(DedupMasterRows, MaxMaster) :
       disk = DiskOf(a, << >>, m)

NextDedup ==
  \/ ExecutePipeline
  \/ OnLoadWhobuilds
  \/ OnLoadMaster

SpecDedup == InitDedup /\ [][NextDedup]_vars

\* the records of seq at the positions in S, in order
RECURSIVE Pick(_, _, _)
Pick(seq, S, i) ==
  IF i > Len(seq) THEN << >>
  ELSE (IF i \in S THEN << seq[i] >> ELSE << >>) \o Pick(seq, S, i + 1)

\* the master sheet the run has read
MasterInput == IF run.masterFile = Null THEN << >> ELSE disk[run.masterFile.name]

\* C1: the deduplication step splits the merged-and-filtered records into
\* duplicates and uniqueNew: some set S of positions goes to duplicates and
\* exactly the other positions go to uniqueNew, each list in input order
C1_DedupPartition ==
  results # Null =>
    \E S \in SUBSET (1..Len(mergedNew)) :
      /\ results.duplicates = Pick(mergedNew, S, 1)
      /\ uniqueNew = Pick(mergedNew, (1..Len(mergedNew)) \ S, 1)

\* a run has split two or more records into both lists, a unique one first
C1_Witness ==
  /\ results # Null
  /\ Len(mergedNew) >= 2
  /\ Len(results.duplicates) >= 1
  /\ Len(uniqueNew) >= 1
  /\ mergedNew[1] = uniqueNew[1]
  /\ mergedNew[1] # mergedNew[2]

\* a key component as the specification reads it: coerced to text, a missing
\* value the empty string, trimmed
SpecKeyText(item, key) ==
  LET v == Cell(item, key)
  IN Trim(IF v = Undef THEN << >> ELSE JSString(v))

\* C2: a new record is in duplicates if and only if some master record equals
\* it on all four key components, each coerced to text (missing -> ""),
\* trimmed and compared case-sensitively
C2_DuplicateIffAllFourKeysEqual ==
  results # Null =>
    \A i \in 1..Len(mergedNew) :
      (\E j \in 1..Len(results.duplicates) : results.duplicates[j] = mergedNew[i])
      <=> \E m \in 1..Len(MasterInput) :
            \A k \in 1..Len(keyCols) :
              SpecKeyText(mergedNew[i], keyCols[k]) = SpecKeyText(MasterInput[m], keyCols[k])

\* C3: the "No." values of updatedMaster are 1, 2, ..., L in sequence order
C3_MasterRenumbered ==
  results # Null =>
    \A i \in 1..Len(results.updatedMaster) :
      /\ "No." \in DOMAIN results.updatedMaster[i]
      /\ results.updatedMaster[i]["No."] = Num(i)

\* a run has renumbered a master whose rows had a non-numeric "No.", no "No."
\* or a repeated "No.", and has appended a new record
C3_Witness ==
  /\ results # Null
  /\ Len(uniqueNew) >= 1
  /\ Len(MasterInput) = 2
  /\ \/ \E i \in 1..2 : "No." \notin DOMAIN MasterInput[i]
     \/ \E i \in 1..2 : MasterInput[i]["No."].k = "string"
     \/ MasterInput[1]["No."] = MasterInput[2]["No."]

\* records a and b have the same fields with the same values, "No." aside
SameButNo(a, b) ==
  /\ DOMAIN a \ { "No." } = DOMAIN b \ { "No." }
  /\ \A f \in DOMAIN a \ { "No." } : a[f] = b[f]

\* C4: updatedMaster is the input master records in their order, every field
\* but "No." unchanged, followed by the uniqueNew records in order, and the
\* master sequence that was read is itself unchanged
C4_MasterAppendOnly ==
  results # Null =>
    /\ Len(results.updatedMaster) = Len(MasterInput) + Len(uniqueNew)
    /\ \A i \in 1..Len(MasterInput) :
         SameButNo(results.updatedMaster[i], MasterInput[i])
    /\ \A j \in 1..Len(uniqueNew) :
         SameButNo(results.updatedMaster[Len(MasterInput) + j], uniqueNew[j])
    /\ existingMaster = MasterInput

\* a run has appended two different new records to a master of two different rows
C4_Witness ==
  /\ results # Null
  /\ Len(MasterInput) = 2
  /\ MasterInput[1] # MasterInput[2]
  /\ Len(uniqueNew) = 2
  /\ uniqueNew[1] # uniqueNew[2]
  /\ Len(results.duplicates) = 0

\* no two records of seq have the same composite key
NoSharedKey(seq) ==
  \A i, j \in 1..Len(seq) :
    i # j => \E k \in 1..Len(keyCols) :
               KeyText(seq[i], keyCols[k]) # KeyText(seq[j], keyCols[k])

\* C15: if no two records of the input master share a composite key, no two
\* records of updatedMaster share one
C15_MasterStaysDeduplicated ==
  results # Null =>
    (NoSharedKey(MasterInput) => NoSharedKey(results.updatedMaster))

(***************************************************************************)
(* Chunked export over bounded result sets: one Source-A file of up to     *)
(* MaxResult rows, no master, chunk sizes 1..MaxChunk.                     *)
(***************************************************************************)
ChunkRows ==
  { DedupNewRow(Str(<< "a" >>), Str(<< "g" >>), Str(<< "c" >>), Str(<< "s" >>)),
    DedupNewRow(Str(<< "b" >>), Str(<< "g" >>), Str(<< "c" >>), Str(<< "s" >>)) }

InitChunk ==
  /\ \E cs \in 1..MaxChunk :
       Page(<< File("wb1") >>, Null, Null, cs, defaultCompletionOffset)
  /\ now = Clock
  /\ \E a \in SeqsUpTo(ChunkRows, MaxResult) : disk = DiskOf(a, << >>, << >>)

NextChunk ==
  \/ SetChunkSize
  \/ ExecutePipeline
  \/ OnLoadWhobuilds
  \/ DownloadAll

SpecChunk == InitChunk /\ [][NextChunk]_vars

\* the chunk files of the last downloadAll, in export order
ExportedChunks == SelectSeq(exported, LAMBDA f : f.kind = "chunk")

RECURSIVE ConcatData(_)
ConcatData(files) ==
  IF files = << >> THEN << >> ELSE Head(files).data \o ConcatData(Tail(files))

\* C5: downloadAll cuts resultDf (n records) with chunk size c into ceil(n/c)
\* chunks, all of c records but the last, which has 1..c; the chunks in order
\* hold the records of resultDf in order, and "No." runs 1..size in each chunk
C5_Chunking ==
  (results # Null /\ exported # << >>) =>
    LET n  == Len(results.resultDf)
        c  == results.chunkSize
        ch == ExportedChunks
        all == ConcatData(ch)
    IN /\ (Len(ch) - 1) * c < n
       /\ n <= Len(ch) * c
       /\ \A i \in 1..(Len(ch) - 1) : Len(ch[i].data) = c
       /\ Len(ch) > 0 => Len(ch[Len(ch)].data) \in 1..c
       /\ Len(all) = n
       /\ \A i \in 1..n : SameButNo(all[i], results.resultDf[i])
       /\ \A i \in 1..Len(ch) : \A j \in 1..Len(ch[i].data) :
            ch[i].data[j]["No."] = Num(j)

\* downloadAll has exported two or more chunks, the last one shorter than c
\* and holding a record other than the first chunk's
C5_Witness ==
  /\ results # Null
  /\ Len(ExportedChunks) >= 2
  /\ Len(ExportedChunks[Len(ExportedChunks)].data) < results.chunkSize
  /\ results.chunkSize >= 2
  /\ ~SameButNo(ExportedChunks[1].data[1], ExportedChunks[Len(ExportedChunks)].data[1])

(***************************************************************************)
(* The completion-date check over bounded dates: one Source-A row and one  *)
(* Source-B row whose completion dates lie within MaxDayShift days of the  *)
(* cutoff, written in any of the three formats, or are empty.              *)
(***************************************************************************)
Todays == { DaysFromCivil(2024, 2, 27), DaysFromCivil(2024, 12, 30),
            DaysFromCivil(2025, 9, 29) }

FilterOffsets == { 0, 1, 30 }

\* format(date, 'yyyy.MM.dd')
FormatDot(day) ==
  LET c == CivilFromDays(day)
  IN Pad(NatToStr(c[1]), 4) \o << "." >> \o Pad(NatToStr(c[2]), 2)
       \o << "." >> \o Pad(NatToStr(c[3]), 2)

DateTexts(cutoff) ==
  { << >> } \cup
  UNION { { FormatISO(d), FormatTag(d), FormatDot(d) } :
            d \in (cutoff - MaxDayShift)..(cutoff + MaxDayShift) }

FilterRowA(end) ==
  RowA(Str(<< "a" >>), Str(<< "g" >>), Str(<< "c" >>), Str(<< "s" >>), << >>, end, << >>)

FilterRowB(end) ==
  RowB(Str(<< "b" >>), Str(<< "g" >>), Str(<< "c" >>), Str(<< "s" >>), end,
       Num(defaultMinAmount))

InitFilter ==
  \E today \in Todays, off \in FilterOffsets :
    /\ Page(<< File("wb1") >>, File("nj1"), Null, defaultChunkSize, off)
    /\ now = today
    /\ \E ea \in DateTexts(today + off), eb \in DateTexts(today + off) :
         disk = DiskOf(<< FilterRowA(ea) >>, << FilterRowB(eb) >>, << >>)

NextFilter ==
  \/ ExecutePipeline
  \/ OnLoadWhobuilds
  \/ OnLoadNarajang

SpecFilter == InitFilter /\ [][NextFilter]_vars

\* the day of a normalized completion date, NoDate when it is empty
CompletionDay(p) ==
  ParseTokens(p["completion"].s, << "Y", "-", "M", "-", "D" >>, [y |-> 0, m |-> 0, d |-> 0])

\* today + configured offset days, as a day
CutoffDay == run.config.today + run.config.completionOffsetDays

InSeq(x, seq) == \E i \in 1..Len(seq) : seq[i] = x

\* every check of the record's source but the completion-date check
OtherChecks(p) ==
  /\ constrCheck(p, run.config)
  /\ keywordCheck(p, run.config)
  /\ KeepFloors(p)
  /\ IF p["source"] = sourceA
     THEN ~Includes(JSString(p["agency"]), DAPA)
     ELSE ToNumber(p["amount"]) >= run.config.minContractAmount

\* the normalized records of the run's input rows
Normalized ==
  [i \in 1..Len(disk["wb1"]) |-> NormalizeWhobuilds(disk["wb1"][i])]
  \o [i \in 1..Len(disk["nj1"]) |-> NormalizeNarajang(disk["nj1"][i])]

\* C6: a record of either source that passes every other check is retained
\* exactly when its completion date is the cutoff day or a later day; the day
\* before the cutoff, any earlier day and the empty date are excluded
C6_CutoffInclusive ==
  results # Null =>
    \A i \in 1..Len(Normalized) :
      LET p == Normalized[i]
      IN OtherChecks(p) =>
           (InSeq(p, mergedNew) <=>
              (CompletionDay(p).ok /\ CompletionDay(p).day >= CutoffDay))

\* a run has kept a Source-A record dated on the cutoff day and dropped a
\* Source-B record dated the day before
C6_Witness ==
  /\ results # Null
  /\ Len(Normalized) = 2
  /\ CompletionDay(Normalized[1]).ok
  /\ CompletionDay(Normalized[1]).day = CutoffDay
  /\ InSeq(Normalized[1], mergedNew)
  /\ CompletionDay(Normalized[2]).ok
  /\ CompletionDay(Normalized[2]).day = CutoffDay - 1
  /\ ~InSeq(Normalized[2], mergedNew)

(***************************************************************************)
(* Properties of whole runs, checked under Spec.                           *)
(***************************************************************************)
Carries(rec) == "_originalConstr" \in DOMAIN rec

\* C7: no record of resultDf, duplicates, updatedMaster or of a file handed
\* to exportExcel carries the field _originalConstr
C7_OriginalConstrNotExported ==
  /\ results # Null =>
       /\ \A i \in 1..Len(results.resultDf) : ~Carries(results.resultDf[i])
       /\ \A i \in 1..Len(results.duplicates) : ~Carries(results.duplicates[i])
       /\ \A i \in 1..Len(results.updatedMaster) : ~Carries(results.updatedMaster[i])
  /\ \A f \in 1..Len(exported) :
       \A i \in 1..Len(exported[f].data) : ~Carries(exported[f].data[i])

StageEvents == { "processWhobuilds", "processNarajang", "filterMerged", "deduplicate" }

\* the number of events of the kinds evs before position i of the trace
CountBefore(evs, i) == Cardinality({ j \in 1..(i - 1) : trace[j].ev \in evs })

\* the reads the run makes, in the order of its arguments
ExpectedReads ==
  [i \in 1..Len(run.whobuildsFiles) |-> run.whobuildsFiles[i].name]
  \o (IF run.narajangFile # Null THEN << run.narajangFile.name >> ELSE << >>)
  \o (IF run.masterFile # Null THEN << run.masterFile.name >> ELSE << >>)

\* a read starts only when no read is in flight, and the k-th read that
\* starts is the k-th of ExpectedReads
ReadsSequential ==
  \A i \in 1..Len(trace) :
    trace[i].ev = "readStart" =>
      /\ CountBefore({ "readStart" }, i) = CountBefore({ "readEnd" }, i)
      /\ CountBefore({ "readStart" }, i) < Len(ExpectedReads)
      /\ trace[i].file = ExpectedReads[CountBefore({ "readStart" }, i) + 1]

\* C8 as stated: every read of the run has completed before any stage
\* (normalization, filtering, deduplication) works on a record, and the reads
\* are sequential and in order
C8_AllReadsBeforeAnyStage ==
  /\ \A i \in 1..Len(trace) :
       (trace[i].ev \in StageEvents /\ trace[i].n > 0) =>
         CountBefore({ "readEnd" }, i) = Len(ExpectedReads)
  /\ ReadsSequential

\* C8 amended: each stage starts after the reads of its own input: Source-A
\* processing after all Source-A reads, Source-B processing after the
\* Source-B read, deduplication after the master read (so after every read);
\* the reads are sequential and in order
C8_ReadsBeforeOwnStage ==
  /\ \A i \in 1..Len(trace) :
       /\ trace[i].ev = "processWhobuilds" =>
            CountBefore({ "readEnd" }, i) = Len(run.whobuildsFiles)
       /\ trace[i].ev = "processNarajang" =>
            CountBefore({ "readEnd" }, i) = Len(run.whobuildsFiles) + 1
       /\ trace[i].ev = "deduplicate" =>
            CountBefore({ "readEnd" }, i) = Len(ExpectedReads)
  /\ ReadsSequential

\* a run over two different Source-A files, a Source-B file and a master file
\* has returned
C8_Witness ==
  /\ results # Null
  /\ Len(run.whobuildsFiles) = 2
  /\ run.whobuildsFiles[1] # run.whobuildsFiles[2]
  /\ run.narajangFile # Null
  /\ run.masterFile # Null
  /\ Len(whobuildsProcessed) > 0

\* C9: every started run ends: while isProcessing is true the run is waiting
\* for the load or error event of a FileReader, whose delivery resolves or
\* rejects readExcel; it is never left waiting on a promise nothing settles
C9_RunNeverStuck == isProcessing => pc \in { "readA", "readB", "readM" }

\* the last run was rejected by a file read
LastRunFailed ==
  /\ pc = "idle"
  /\ trace # << >>
  /\ trace[Len(trace)].ev = "readError"

\* C10: after a run that failed at a file read results is null and downloadAll
\* exports nothing, whatever earlier runs returned
C10_FailedRunLeavesNoOutput ==
  LastRunFailed => (results = Null /\ exported = << >>)

\* a run has failed at a read after an earlier run on the page had succeeded
C10_Witness ==
  /\ LastRunFailed
  /\ everSucceeded
  /\ results = Null
  /\ ~isProcessing

(***************************************************************************)
(* Extraction over bounded rows: a Source-A sheet whose rows carry the     *)
(* overview texts of OverviewTexts or a completion date that does not      *)
(* parse, and a Source-B sheet of at most one row.                         *)
(***************************************************************************)
OverviewTexts ==
  { << >>,
    jiha \o << " ", "9", " " >> \o jisang \o << "9", "9" >>,
    jiha \o << "1", "0" >>,
    jisang \o << " ", "1", "0", "0" >>,
    jiha \o << " ", "x" >>,
    jiha \o << " ", "9" >>,
    geumaek \o << ":", "1", ",", "0", "0", "0" >>,
    geumaek \o << " ", "x" >> }

\* a completion date no format of parseDate accepts: month 13
BadDate == << "2", "0", "2", "5", "-", "1", "3", "-", "0", "1" >>

ExtractRowA(overview, end) ==
  RowA(Str(<< "a" >>), Str(<< "g" >>), Str(<< "c" >>), Str(<< "s" >>), << >>, end, overview)

ExtractRowsA ==
  { ExtractRowA(t, FormatISO(Clock + 40)) : t \in OverviewTexts }
  \cup { ExtractRowA(<< >>, BadDate) }

ExtractRowsB ==
  { RowB(Str(<< "b" >>), Str(<< "g" >>), Str(<< "c" >>), Str(<< "s" >>), end,
         Num(defaultMinAmount)) : end \in { FormatDot(Clock + 40), BadDate } }

InitExtract ==
  /\ Page(<< File("wb1") >>, File("nj1"), Null, defaultChunkSize, defaultCompletionOffset)
  /\ now = Clock
  /\ \E a \in SeqsUpTo(ExtractRowsA, MaxNew), b \in SeqsUpTo(ExtractRowsB, 1) :
       disk = DiskOf(a, b, << >>)

NextExtract ==
  \/ ExecutePipeline
  \/ OnLoadWhobuilds
  \/ OnLoadNarajang

SpecExtract == InitExtract /\ [][NextExtract]_vars

\* the fields of a Source-A record that an extractor fills, and what the
\* extractor returned for the row, before the empty string is substituted
ExtractedA == { "completion", "bFloors", "gFloors", "amount" }

ExtractionA(row, f) ==
  LET dateRange == Split(JSString(OrElse(Cell(row, "dateRange"), EmptyStr)), "~")
      overview == JSString(OrElse(Cell(row, "overview"), EmptyStr))
  IN CASE f = "completion" -> parseDate(At(dateRange, 2))
       [] f = "bFloors" -> extractFloors(overview, jiha)
       [] f = "gFloors" -> extractFloors(overview, jisang)
       [] OTHER -> extractAmount(overview)

\* the same for a Source-B record
ExtractedB == { "completion" }

ExtractionB(row, f) == parseDate(Cell(row, "completion"))

\* a floor count is present and at or over its bound
FloorExcluded(p) ==
  \/ p["bFloors"] # EmptyStr /\ p["bFloors"].n >= 10
  \/ p["gFloors"] # EmptyStr /\ p["gFloors"].n >= 100

\* the eligibility rules of the run's configuration applied to record p
RuleKeeps(p) ==
  /\ CompletionDay(p).ok
  /\ CompletionDay(p).day >= CutoffDay
  /\ ~InSeq(p["_originalConstr"].s, run.config.excludedTypes)
  /\ ~containsExcludedKeyword(p["name"], run.config.excludedKeywords)
  /\ ~FloorExcluded(p)
  /\ IF p["source"] = sourceA
     THEN ~Includes(JSString(p["agency"]), DAPA)
     ELSE p["amount"].n >= run.config.minContractAmount

\* the records of a sheet paired with the results of their extractors:
\* r2 is r1 with the extraction of f failed
FailedPair(norm1, norm2, fields, ext1, ext2, f) ==
  /\ ext1[f] # Null
  /\ ext2[f] = Null
  /\ \A g \in fields \ { f } : ext1[g] = ext2[g]
  /\ \A g \in DOMAIN norm1 \ fields : norm1[g] = norm2[g]

ExtA(row) == [f \in ExtractedA |-> ExtractionA(row, f)]

ExtB(row) == [f \in ExtractedB |-> ExtractionB(row, f)]

\* C11: a run over rows whose extractions fail ends with a result, and for two
\* rows of one source that differ only in that the extraction of one field
\* succeeds for the first and fails for the second, the second has that field
\* empty and is kept whenever the rules keep the first with that field empty
C11_FailedExtractionKeepsRecord ==
  (run # Null /\ ~isProcessing) =>
    /\ results # Null
    /\ \A i, j \in 1..Len(disk["wb1"]) : \A f \in ExtractedA :
         LET p1 == NormalizeWhobuilds(disk["wb1"][i])
             p2 == NormalizeWhobuilds(disk["wb1"][j])
         IN FailedPair(p1, p2, ExtractedA, ExtA(disk["wb1"][i]), ExtA(disk["wb1"][j]), f)
            => /\ p2[f] = EmptyStr
               /\ RuleKeeps([p1 EXCEPT ![f] = EmptyStr]) => InSeq(p2, mergedNew)
    /\ \A i, j \in 1..Len(disk["nj1"]) : \A f \in ExtractedB :
         LET p1 == NormalizeNarajang(disk["nj1"][i])
             p2 == NormalizeNarajang(disk["nj1"][j])
         IN FailedPair(p1, p2, ExtractedB, ExtB(disk["nj1"][i]), ExtB(disk["nj1"][j]), f)
            => /\ p2[f] = EmptyStr
               /\ RuleKeeps([p1 EXCEPT ![f] = EmptyStr]) => InSeq(p2, mergedNew)

\* a run has dropped a Source-A record with 10 basement floors and kept the
\* record of a row that differs from it only in that no basement count could
\* be extracted
C11_Witness ==
  /\ results # Null
  /\ Len(disk["wb1"]) = 2
  /\ LET p1 == NormalizeWhobuilds(disk["wb1"][1])
         p2 == NormalizeWhobuilds(disk["wb1"][2])
     IN /\ FailedPair(p1, p2, ExtractedA, ExtA(disk["wb1"][1]), ExtA(disk["wb1"][2]),
                      "bFloors")
        /\ p1["bFloors"] = Num(10)
        /\ p2["bFloors"] = EmptyStr
        /\ ~InSeq(p1, mergedNew)
        /\ InSeq(p2, mergedNew)

\* C13: the merged set is the concatenation of the two filtered sources
\* without exactly the records whose basement count is present and >= 10 or
\* whose above-ground count is present and >= 100, in order
C13_FloorBounds ==
  results # Null =>
    mergedNew = SelectSeq(whobuildsProcessed \o narajangProcessed,
                          LAMBDA p : ~FloorExcluded(p))

\* a run has kept a record with 9 basement and 99 above-ground floors and a
\* Source-B record without floor counts, and has dropped one with 10 basement
\* floors
C13_Witness ==
  /\ results # Null
  /\ \E i \in 1..Len(whobuildsProcessed) :
       /\ whobuildsProcessed[i]["bFloors"] = Num(9)
       /\ whobuildsProcessed[i]["gFloors"] = Num(99)
       /\ InSeq(whobuildsProcessed[i], mergedNew)
  /\ \E i \in 1..Len(whobuildsProcessed) :
       /\ whobuildsProcessed[i]["bFloors"] = Num(10)
       /\ ~InSeq(whobuildsProcessed[i], mergedNew)
  /\ \E i \in 1..Len(narajangProcessed) :
       /\ narajangProcessed[i]["bFloors"] = EmptyStr
       /\ narajangProcessed[i]["gFloors"] = EmptyStr
       /\ InSeq(narajangProcessed[i], mergedNew)

(***************************************************************************)
(* The eligibility rules over bounded rows and minimum amounts: Source-A   *)
(* rows that pass, fail the Source-A filter or fail the floor bounds, one  *)
(* Source-B row whose amount lies around the configured minimum.           *)
(***************************************************************************)
RuleRowsA ==
  { RowA(Str(<< "a" >>), Str(<< "g" >>), Str(<< "c" >>), Str(<< "s" >>), << >>,
         FormatISO(Clock + 40), geumaek \o << " ", "2" >>),
    RowA(Str(<< "a" >>), Str(<< "g" >>), Str(<< "c" >>), Str(<< "s" >>), << >>,
         FormatISO(Clock + 40), jiha \o << "1", "0" >>),
    RowA(Str(<< "a" >>), Str(DAPA), Str(<< "c" >>), Str(<< "s" >>), << >>,
         FormatISO(Clock + 40), << >>) }

\* the contract amount cells of the Source-B rows
AmountCells ==
  { Undef, Num(2), Num(3), Num(defaultMinAmount - 1), Num(defaultMinAmount),
    Str(NatToStr(defaultMinAmount)) }

RuleRowsB ==
  { RowB(Str(<< "b" >>), Str(<< "g" >>), Str(<< "c" >>), Str(<< "s" >>),
         FormatTag(Clock + 40), amount) : amount \in AmountCells }
  \cup { RowB(Str(<< "x", "x" >>), Str(<< "g" >>), Str(<< "c" >>), Str(<< "s" >>),
              FormatTag(Clock + 40), Num(defaultMinAmount)) }

InitRules ==
  /\ Page(<< File("wb1") >>, File("nj1"), Null, defaultChunkSize, defaultCompletionOffset)
  /\ now = Clock
  /\ \E a \in SeqsUpTo(RuleRowsA, MaxNew), b \in SeqsUpTo(RuleRowsB, 1) :
       disk = DiskOf(a, b, << >>)

NextRules ==
  \/ SetMinAmount
  \/ ExecutePipeline
  \/ OnLoadWhobuilds
  \/ OnLoadNarajang

SpecRules == InitRules /\ [][NextRules]_vars

AmountOf(row) ==
  LET v == Cell(row, "amount")
  IN CASE v.k = "number" -> v.n
       [] v.k = "string" -> DigitsToNat(v.s)
       [] OTHER -> 0

\* the completion-date, type and keyword rules of the run's configuration
DateTypeKeyword(p) ==
  /\ CompletionDay(p).ok
  /\ CompletionDay(p).day >= CutoffDay
  /\ ~InSeq(p["_originalConstr"].s, run.config.excludedTypes)
  /\ ~containsExcludedKeyword(p["name"], run.config.excludedKeywords)

\* C14: a Source-B record that passes the date, type and keyword checks is
\* retained exactly when its amount is >= the configured minimum; a Source-A
\* record that passes its other checks is retained whatever its amount
C14_MinAmountSourceBInclusive ==
  results # Null =>
    /\ \A i \in 1..Len(disk["nj1"]) :
         LET p == NormalizeNarajang(disk["nj1"][i])
         IN DateTypeKeyword(p) =>
              (InSeq(p, mergedNew)
                 <=> AmountOf(disk["nj1"][i]) >= run.config.minContractAmount)
    /\ \A i \in 1..Len(disk["wb1"]) :
         LET p == NormalizeWhobuilds(disk["wb1"][i])
         IN (/\ DateTypeKeyword(p)
             /\ ~Includes(JSString(p["agency"]), DAPA)
             /\ ~FloorExcluded(p)) => InSeq(p, mergedNew)

\* a run with the minimum set to 3 has kept a Source-B record whose amount is
\* 3 and a Source-A record whose extracted amount is 2
C14_Witness ==
  /\ results # Null
  /\ run.config.minContractAmount = 3
  /\ \E i \in 1..Len(narajangProcessed) :
       /\ narajangProcessed[i]["amount"] = Num(3)
       /\ InSeq(narajangProcessed[i], mergedNew)
  /\ \E i \in 1..Len(whobuildsProcessed) :
       /\ whobuildsProcessed[i]["amount"] = Str(<< "2" >>)
       /\ InSeq(whobuildsProcessed[i], mergedNew)

(***************************************************************************)
(* A second run over the master the first run produced: one Source-A file  *)
(* and a master file are selected, the integrated file of a download is    *)
(* kept as the master workbook, and the pipeline is run again.             *)
(***************************************************************************)
RerunNewRows ==
  { DedupNewRow(Str(<< " ", "a", " " >>), Str(<< "g" >>), Str(<< "c" >>), Str(<< "s" >>)),
    DedupNewRow(Num(0), Str(<< "g" >>), Str(<< "c" >>), Str(<< "s" >>)),
    DedupNewRow(Str(<< "a" >>), Undef, Str(<< "c" >>), Undef),
    DedupNewRow(Str(<< "a" >>), Str(<< "h" >>), Str(<< "c" >>), Str(<< "s" >>)) }

RerunMasterRows ==
  { RowM(Num(7), Str(<< "a" >>), Str(<< "g" >>), Str(<< "c" >>), Str(<< "s" >>)),
    RowM(Str(<< "x" >>), Undef, Str(<< "g" >>), Str(<< "c" >>), Str(<< "s" >>)) }

InitRerun ==
  /\ Page(<< File("wb1") >>, Null, File("ms1"), defaultChunkSize, defaultCompletionOffset)
  /\ now = Clock
  /\ \E a \in SeqsUpTo(RerunNewRows, MaxNew), m \in SeqsUpTo(RerunMasterRows, MaxMaster) :
       disk = DiskOf(a, << >>, m)

NextRerun ==
  \/ ExecutePipeline
  \/ OnLoadWhobuilds
  \/ OnLoadMaster
  \/ DownloadAll
  \/ SaveExportedMaster

SpecRerun == InitRerun /\ [][NextRerun]_vars

\* C16: a run whose master is the updatedMaster of an earlier run over the
\* same inputs, configuration and cutoff finds every surviving new record a
\* duplicate, has an empty uniqueNew and returns the master it read
C16_RerunIdempotent ==
  (masterSaved /\ results # Null /\ existingMaster = disk["ms1"]) =>
    /\ uniqueNew = << >>
    /\ results.resultDf = << >>
    /\ results.duplicates = mergedNew
    /\ results.updatedMaster = existingMaster

\* a second run has read a master to which the first run had appended new
\* records, and has found its new records to be duplicates
C16_Witness ==
  /\ masterSaved
  /\ results # Null
  /\ existingMaster = disk["ms1"]
  /\ Len(existingMaster) > MaxMaster
  /\ Len(results.duplicates) >= 2
  /\ \E i \in 1..Len(existingMaster) : "address" \notin DOMAIN existingMaster[i]

(***************************************************************************)
(* Runs on the shared PipelineService instance: the three kinds of file    *)
(* are selected, runs are started, end, fail or hang, one after another.   *)
(***************************************************************************)
InitSerial ==
  /\ Page(<< File("wb1") >>, File("nj1"), File("ms1"), defaultChunkSize,
          defaultCompletionOffset)
  /\ disk = Disk0
  /\ now = Clock

NextSerial ==
  \/ HandleWhobuildsUpload
  \/ ClearWhobuildsFiles
  \/ ExecutePipeline
  \/ OnLoadWhobuilds
  \/ OnLoadNarajang
  \/ OnLoadMaster
  \/ OnLoadThrows
  \/ OnError
  \/ ClearLogView

SpecSerial == InitSerial /\ [][NextSerial]_vars

IsPrefix(a, b) == Len(a) <= Len(b) /\ SubSeq(b, 1, Len(a)) = a

\* the entry of line 124, the first one every run appends
startEntry == Entry("info", "Pipeline starting", "", 0, 0)

\* C17: while a run is in progress no step removes an entry from the log of
\* the service or an event from the run's history (no other run starts), and
\* at the step that ends the run the log shown is the log of the service,
\* which holds the entries of one run only: its start entry comes first and
\* occurs once
C17_RunsSerialized ==
  [][ /\ isProcessing => /\ IsPrefix(svcLogs, svcLogs')
                         /\ IsPrefix(trace, trace')
                         /\ run' = run
      /\ (isProcessing /\ ~isProcessing') =>
           /\ logs' = svcLogs'
           /\ svcLogs'[1] = startEntry
           /\ \A i \in 2..Len(svcLogs') : svcLogs'[i] # startEntry ]_vars

\* a run that failed after an earlier run had succeeded shows its own entries
\* only: no entry of the successful run is left
C17_Witness ==
  /\ everSucceeded
  /\ ~isProcessing
  /\ pc = "idle"
  /\ logs = svcLogs
  /\ Len(logs) >= 4
  /\ logs[1] = startEntry
  /\ logs[Len(logs)] = errorEntry
  /\ \A i \in 1..Len(logs) : logs[i].level # "success"

====
